---- MODULE Spec2Model ----
(***************************************************************************)
(* A model of lib/client.js: the HTTP client of the hackchain ledger.      *)
(* A request is one exchange: Client.prototype.request creates it, the     *)
(* transport then emits 'response', 'data', 'end' and 'error', and the     *)
(* handlers registered by request() run the caller's callback.             *)
(***************************************************************************)
EXTENDS Integers, Sequences, FiniteSets, TLC

VARIABLES
    client,      \* the Client instance: the fields set by the constructor
    call,        \* per request: the public operation that was invoked
    wire,        \* per request: the HTTP requests handed to the transport
    errArmed,    \* per request: the req.once('error') listener is attached
    res,         \* per request: the response object (state, statusCode, chunks)
    once,        \* per request: the 'once' flag of the completion guard
    cbCalls,     \* per request: the invocations of request()'s callback
    userCalls,   \* per request: the invocations of the caller's callback
    solverCalls, \* per request: the complexities given to solver.solve
    uncaught     \* per request: exceptions thrown out of an event handler
                 \* or, by parseTX, to its caller

vars == <<client, call, wire, errArmed, res, once, cbCalls, userCalls,
          solverCalls, uncaught>>

(***************************************************************************)
(* Bounds of the model.                                                    *)
(***************************************************************************)
\* the number of 'data' events one response may emit
MaxChunks == 2
\* the number of records in the inputs and in the outputs given to parseTX
MaxRecords == 2

(***************************************************************************)
(* JavaScript values.  A value is a record [t, v]; an object's v maps the  *)
(* names of its own properties to values.                                  *)
(***************************************************************************)
Undefined == [t |-> "undefined", v |-> ""]
JNull == [t |-> "null", v |-> ""]
JBool(b) == [t |-> "boolean", v |-> b]
JNum(n) == [t |-> "number", v |-> n]
JStr(s) == [t |-> "string", v |-> s]
JObj(f) == [t |-> "object", v |-> f]
NoProps == [k \in {} |-> Undefined]

\* property lookup d[k] on a value that is neither null nor undefined
Get(d, k) ==
    IF d.t = "object" /\ k \in DOMAIN d.v THEN d.v[k] ELSE Undefined

\* ToBoolean, as applied by 'if (x)' and 'x || y'
Truthy(d) ==
    CASE d.t = "undefined" -> FALSE
      [] d.t = "null" -> FALSE
      [] d.t = "boolean" -> d.v
      [] d.t = "number" -> d.v # 0
      [] d.t = "string" -> d.v # ""
      [] OTHER -> TRUE

\* ToString, as applied by new Error(x) and by template literals
JSString(d) ==
    CASE d.t = "undefined" -> "undefined"
      [] d.t = "null" -> "null"
      [] d.t = "boolean" -> (IF d.v THEN "true" ELSE "false")
      [] d.t = "number" -> ToString(d.v)
      [] d.t = "string" -> d.v
      [] OTHER -> "[object Object]"

(***************************************************************************)
(* Errors.  kind records where the error was made: "transport" by the      *)
(* transport, "syntax" by JSON.parse, "application" and "status" by the    *)
(* 'end' handler, "type" by the runtime, "decode" by the binary codec.     *)
(***************************************************************************)
NoErr == [kind |-> "none", message |-> ""]
MkError(kind, message) == [kind |-> kind, message |-> message]
TransportErrors == {MkError("transport", "socket hang up")}

\* one invocation callback(err, data)
Invocation(err, data) == [err |-> err, data |-> data]

(***************************************************************************)
(* The transport's inputs: the status codes and the pieces of body text a  *)
(* response may deliver.  A body is a concatenation of chunks.             *)
(***************************************************************************)
StatusCodes == {199, 200, 399, 400}

Chunks ==
    { "null",
      "{}",
      "{\"error\":",
      "\"rejected\"}",
      "{\"error\":\"\"}",
      "{\"error\":503}",
      "{\"proof-of-work-complexity\":4}",
      "{\"tx\":\"01ab\"}",
      "{\"tx\":\"ff\"}",
      "{\"block\":\"01ab\"}" }

\* JSON.parse: the texts over Chunks that are JSON documents, with their
\* values.  Every other concatenation of chunks is a syntax error: the
\* empty text, a lone half of a document, and two documents in a row.
JSONTable ==
    << <<"null", JNull>>,
       <<"{}", JObj(NoProps)>>,
       <<"{\"error\":\"rejected\"}", JObj([error |-> JStr("rejected")])>>,
       <<"{\"error\":\"\"}", JObj([error |-> JStr("")])>>,
       <<"{\"error\":503}", JObj([error |-> JNum(503)])>>,
       <<"{\"proof-of-work-complexity\":4}",
         JObj("proof-of-work-complexity" :> JNum(4))>>,
       <<"{\"tx\":\"01ab\"}", JObj([tx |-> JStr("01ab")])>>,
       <<"{\"tx\":\"ff\"}", JObj([tx |-> JStr("ff")])>>,
       <<"{\"block\":\"01ab\"}", JObj([block |-> JStr("01ab")])>> >>

JSONValid(text) == \E i \in DOMAIN JSONTable : JSONTable[i][1] = text

JSONParse(text) ==
    JSONTable[CHOOSE i \in DOMAIN JSONTable : JSONTable[i][1] = text][2]

SyntaxErr == MkError("syntax", "Unexpected token in JSON")

(***************************************************************************)
(* Buffers, hex and the binary codec of hackchain-core.                    *)
(***************************************************************************)
HexDigits == <<"0", "1", "2", "3", "4", "5", "6", "7",
               "8", "9", "a", "b", "c", "d", "e", "f">>

\* buf.toString('hex')
RECURSIVE ToHex(_)
ToHex(bytes) ==
    IF bytes = << >> THEN ""
    ELSE HexDigits[(Head(bytes) \div 16) + 1]
         \o HexDigits[(Head(bytes) % 16) + 1]
         \o ToHex(Tail(bytes))

\* Buffer.from(s, 'hex') for a string s: decoding stops at the first pair
\* that is not two hex digits
FromHex(s) ==
    CASE s = "01ab" -> <<1, 171>>
      [] s = "02" -> <<2>>
      [] s = "ff" -> <<255>>
      [] OTHER -> << >>

Entity(cons, bytes) == [t |-> "entity", v |-> [cons |-> cons, bytes |-> bytes]]

\* cons.parse(buf) of hackchain-core: the byte strings that decode
ConsParseOK(cons, bytes) == bytes \in {<<1, 171>>, <<2>>}

\* tx.render(buf); Buffer.concat(buf.render())
Render(tx) == tx.v.bytes

\* tx.hash()
TXHash(tx) == IF tx.v.bytes = <<1, 171>> THEN <<202, 254>> ELSE <<190, 239>>

\* the transactions a caller may spend
TXs == {Entity("TX", <<1, 171>>), Entity("TX", <<2>>)}

\* JSON.stringify({ tx: hex })
StringifyTX(hex) == "{\"tx\":\"" \o hex \o "\"}"

(***************************************************************************)
(* The completion guard and the 'end' handler of Client.prototype.request. *)
(* A handler's outcome is a record: the value of 'once' after it, the      *)
(* invocations of request()'s callback it made, and what it threw.         *)
(***************************************************************************)
Outcome(o, calls, thrown) == [once |-> o, calls |-> calls, thrown |-> thrown]

\* done(err, data): lines 37-43
Done(o, err, data) ==
    IF o THEN Outcome(o, << >>, << >>)
    ELSE Outcome(TRUE, <<Invocation(err, data)>>, << >>)

\* new Error('Client: statusCode ' + res.statusCode)
StatusErr(statusCode) ==
    MkError("status", "Client: statusCode " \o ToString(statusCode))

\* new Error(data.error)
ApplicationErr(field) == MkError("application", JSString(field))

\* reading a property of null
NullTypeErr == MkError("type", "Cannot read property 'error' of null")

\* EndHandler with the status check placed before the error-field check
EndHandler_StatusFirst(o, chunks, statusCode) ==
    IF ~JSONValid(chunks) THEN Done(o, SyntaxErr, Undefined)
    ELSE LET data == JSONParse(chunks) IN
         IF data.t = "null" THEN Outcome(o, << >>, <<NullTypeErr>>)
         ELSE IF statusCode < 200 \/ statusCode >= 400
              THEN Outcome(o, <<Invocation(StatusErr(statusCode), Undefined)>>,
                           << >>)
         ELSE IF Truthy(Get(data, "error"))
              THEN Done(o, ApplicationErr(Get(data, "error")), Undefined)
         ELSE Done(o, NoErr, data)

\* EndHandler with the decode failure swallowed: the status decides
EndHandler_DecodeIgnored(o, chunks, statusCode) ==
    IF ~JSONValid(chunks)
    THEN IF statusCode < 200 \/ statusCode >= 400
         THEN Outcome(o, <<Invocation(StatusErr(statusCode), Undefined)>>,
                      << >>)
         ELSE Done(o, NoErr, Undefined)
    ELSE LET data == JSONParse(chunks) IN
         IF data.t = "null" THEN Outcome(o, << >>, <<NullTypeErr>>)
         ELSE IF Truthy(Get(data, "error"))
              THEN Done(o, ApplicationErr(Get(data, "error")), Undefined)
         ELSE IF statusCode < 200 \/ statusCode >= 400
              THEN Outcome(o, <<Invocation(StatusErr(statusCode), Undefined)>>,
                           << >>)
         ELSE Done(o, NoErr, data)

\* the listener of res.once('end'): lines 63-78
EndHandler(o, chunks, statusCode) ==
    IF ~JSONValid(chunks) THEN Done(o, SyntaxErr, Undefined)
    ELSE LET data == JSONParse(chunks) IN
         IF data.t = "null" THEN Outcome(o, << >>, <<NullTypeErr>>)
         ELSE IF Truthy(Get(data, "error"))
              THEN Done(o, ApplicationErr(Get(data, "error")), Undefined)
         ELSE IF statusCode < 200 \/ statusCode >= 400
              THEN Outcome(o, <<Invocation(StatusErr(statusCode), Undefined)>>,
                           << >>)
         ELSE Done(o, NoErr, data)

\* the listener of req.once('error', done): line 81
ErrorHandler(o, err) == Done(o, err, Undefined)

(***************************************************************************)
(* The public operations: what each does with an invocation (err, data)    *)
(* of the callback it handed to get or post.  A result is the invocations  *)
(* of the caller's callback, the complexities given to the solver and      *)
(* what was thrown.                                                        *)
(***************************************************************************)
Result(calls, solved, thrown) ==
    [calls |-> calls, solved |-> solved, thrown |-> thrown]

BufferTypeErr == MkError("type", "First argument must be a string or Buffer")
DecodeErr == MkError("decode", "malformed entity")

\* parseEntity(hex, cons, callback): lines 94-107.  Buffer.from throws, before
\* the try, on a value that is no string (undefined, null, a number, a boolean)
parseEntity(hex, cons) ==
    IF hex.t # "string" THEN Result(<< >>, << >>, <<BufferTypeErr>>)
    ELSE LET raw == FromHex(hex.v) IN
         IF ConsParseOK(cons, raw)
         THEN Result(<<Invocation(NoErr, Entity(cons, raw))>>, << >>, << >>)
         ELSE Result(<<Invocation(DecodeErr, Undefined)>>, << >>, << >>)

\* the callback getBlock hands to get: lines 110-115
getBlock(err, data) ==
    IF err # NoErr THEN Result(<<Invocation(err, Undefined)>>, << >>, << >>)
    ELSE parseEntity(Get(data, "block"), "Block")

\* the callback getTX hands to get: lines 119-124
getTX(err, data) ==
    IF err # NoErr THEN Result(<<Invocation(err, Undefined)>>, << >>, << >>)
    ELSE parseEntity(Get(data, "tx"), "TX")

\* the callback spendTX hands to post: lines 136-141
spendTX(tx, err, data) ==
    IF err # NoErr THEN Result(<<Invocation(err, Undefined)>>, << >>, << >>)
    ELSE Result(<<Invocation(NoErr, tx)>>, << >>, << >>)

\* Complexity without the '|| 0'
Complexity_NoDefault(info) == Get(info, "proof-of-work-complexity")

\* info['proof-of-work-complexity'] || 0
Complexity(info) ==
    LET c == Get(info, "proof-of-work-complexity") IN
    IF Truthy(c) THEN c ELSE JNum(0)

\* the callback getComplexity hands to getInfo: lines 197-202
getComplexity(err, info) ==
    IF err # NoErr THEN Result(<<Invocation(err, Undefined)>>, << >>, << >>)
    ELSE Result(<<Invocation(NoErr, Complexity(info))>>, << >>, << >>)

\* '${complexity}:${nonce.toString('hex')}'
Token(complexity, nonce) == JStr(JSString(complexity) \o ":" \o ToHex(nonce))

\* getNonceStep with the solver given the default complexity, whatever
\* getComplexity delivered
getNonceStep_DefaultComplexity(err, complexity, nonce) ==
    IF err # NoErr THEN Result(<<Invocation(err, Undefined)>>, << >>, << >>)
    ELSE Result(<<Invocation(NoErr, Token(complexity, nonce))>>,
                <<[complexity |-> JNum(0), nonce |-> nonce]>>, << >>)

\* the callback getNonce hands to getComplexity: lines 206-214; nonce is
\* what solver.solve returns when it is called
getNonceStep(err, complexity, nonce) ==
    IF err # NoErr THEN Result(<<Invocation(err, Undefined)>>, << >>, << >>)
    ELSE Result(<<Invocation(NoErr, Token(complexity, nonce))>>,
                <<[complexity |-> complexity, nonce |-> nonce]>>, << >>)

\* getNonce over getComplexity: the inner callback runs once per invocation
\* getComplexity makes
getNonce(err, info, nonce) ==
    LET inner == getComplexity(err, info) IN
    IF inner.calls = << >> THEN inner
    ELSE getNonceStep(inner.calls[1].err, inner.calls[1].data, nonce)

\* the chain of callbacks behind request()'s callback, by operation
OpCallback(c, inv, nonce) ==
    CASE c.op = "getBlock" -> getBlock(inv.err, inv.data)
      [] c.op = "getTX" -> getTX(inv.err, inv.data)
      [] c.op = "spendTX" -> spendTX(c.tx, inv.err, inv.data)
      [] c.op = "getComplexity" -> getComplexity(inv.err, inv.data)
      [] c.op = "getNonce" -> getNonce(inv.err, inv.data, nonce)
      [] OTHER -> Result(<<inv>>, << >>, << >>)

(***************************************************************************)
(* The Client instance and the request it builds.                          *)
(***************************************************************************)
\* a property of a record-like object; a missing property reads undefined
Field(obj, k) == IF k \in DOMAIN obj THEN obj[k] ELSE "undefined"

\* url.parse(uri): the Url object has protocol, hostname, host and port (""
\* when the URI gives none) and no property named scheme
UrlParse(uri) ==
    CASE uri = "http://ledger:8080" ->
           [protocol |-> "http:", hostname |-> "ledger",
            host |-> "ledger:8080", port |-> "8080"]
      [] uri = "http://ledger" ->
           [protocol |-> "http:", hostname |-> "ledger",
            host |-> "ledger", port |-> ""]
      [] OTHER ->
           [protocol |-> "https:", hostname |-> "ledger",
            host |-> "ledger", port |-> ""]

\* hackchain.version
HackchainVersion == "1.0.0"

\* function Client(uri): lines 18-32
Client(uri) ==
    LET parsed == UrlParse(uri)
        isHttp == Field(parsed, "scheme") = "http:"
    IN  [host |-> parsed.hostname,
         module |-> IF isHttp THEN "http" ELSE "https",
         port |-> IF parsed.port # "" THEN parsed.port
                  ELSE IF isHttp THEN "80" ELSE "443",
         servername |-> parsed.host,
         prefix |-> "/v1",
         version |-> HackchainVersion]

DefaultURI == "https://ledger"

\* util._extend(origin, add): add's properties are copied over origin's
Extend(origin, add) ==
    [k \in DOMAIN origin \cup DOMAIN add |->
        IF k \in DOMAIN add THEN add[k] ELSE origin[k]]

NoHeaders == [k \in {} |-> ""]

\* Options with the path given without the prefix
Options_NoPrefix(c, method, headers, path) ==
    [module |-> c.module,
     host |-> Field(c, "hostname"),
     hostname |-> Field(c, "hostname"),
     port |-> c.port,
     method |-> method,
     path |-> path,
     headers |-> Extend(("User-Agent" :> ("hackchain/client_v" \o c.version))
                        @@ ("Content-Type" :> "application/json"),
                        headers)]

\* the options object given to this.module.request: lines 45-57
Options(c, method, headers, path) ==
    [module |-> c.module,
     host |-> Field(c, "hostname"),
     hostname |-> Field(c, "hostname"),
     port |-> c.port,
     method |-> method,
     path |-> c.prefix \o path,
     headers |-> Extend(("User-Agent" :> ("hackchain/client_v" \o c.version))
                        @@ ("Content-Type" :> "application/json"),
                        headers)]

(***************************************************************************)
(* State.                                                                  *)
(***************************************************************************)
Requests == {"r1"}

NoCall == [op |-> "none", tx |-> Undefined]
NoRes == [state |-> "none", statusCode |-> 0, chunks |-> "", n |-> 0]

\* the inputs of the public operations
Hashes == {"cafe"}
Limits == {10}
Paths == {"/"}
PostHeaders == {NoHeaders, ("X-Proof-Of-Work" :> "4:0a"),
                ("Content-Type" :> "text/plain")}
ProofNonces == {"4:0a"}
\* the values solver.solve may return
Nonces == {<<10>>, <<0, 255>>}

InitOf(uri, ids) ==
    /\ client = Client(uri)
    /\ call = [r \in ids |-> NoCall]
    /\ wire = [r \in ids |-> << >>]
    /\ errArmed = [r \in ids |-> FALSE]
    /\ res = [r \in ids |-> NoRes]
    /\ once = [r \in ids |-> FALSE]
    /\ cbCalls = [r \in ids |-> << >>]
    /\ userCalls = [r \in ids |-> << >>]
    /\ solverCalls = [r \in ids |-> << >>]
    /\ uncaught = [r \in ids |-> << >>]

Init == InitOf(DefaultURI, Requests)

(***************************************************************************)
(* Client.prototype.request, get and post: the request is created, the    *)
(* 'error' listener attached, and end() hands it to the transport.         *)
(***************************************************************************)
\* request(method, headers, path, callback) followed by end(body)
Request(r, c, method, headers, path, body) ==
    /\ call[r].op = "none"
    /\ call' = [call EXCEPT ![r] = c]
    /\ wire' = [wire EXCEPT ![r] =
                  Append(@, [options |-> Options(client, method, headers, path),
                             body |-> body])]
    /\ errArmed' = [errArmed EXCEPT ![r] = TRUE]
    /\ once' = [once EXCEPT ![r] = FALSE]
    /\ UNCHANGED <<client, res, cbCalls, userCalls, solverCalls, uncaught>>

\* get(path, callback): lines 86-88
Get_(r, c, path) == Request(r, c, "GET", NoHeaders, path, "")

\* post(path, headers, body, callback): lines 90-92
Post_(r, c, path, headers, body) == Request(r, c, "POST", headers, path, body)

CallGet(r) ==
    \E path \in Paths : Get_(r, [op |-> "get", tx |-> Undefined], path)

CallPost(r) ==
    \E path \in Paths, headers \in PostHeaders :
        Post_(r, [op |-> "post", tx |-> Undefined], path, headers,
              StringifyTX("01ab"))

CallGetBlock(r) ==
    \E hash \in Hashes :
        Get_(r, [op |-> "getBlock", tx |-> Undefined], "/block/" \o hash)

CallGetTX(r) ==
    \E hash \in Hashes :
        Get_(r, [op |-> "getTX", tx |-> Undefined], "/tx/" \o hash)

\* spendTX(tx, nonce, callback): lines 127-136
CallSpendTX(r) ==
    \E tx \in TXs, nonce \in ProofNonces :
        Post_(r, [op |-> "spendTX", tx |-> tx],
              "/tx/" \o ToHex(TXHash(tx)),
              ("X-Proof-Of-Work" :> nonce),
              StringifyTX(ToHex(Render(tx))))

CallGetInfo(r) == Get_(r, [op |-> "getInfo", tx |-> Undefined], "/")

CallGetLeaderboard(r) ==
    \E limit \in Limits :
        Get_(r, [op |-> "getLeaderboard", tx |-> Undefined],
             "/leaderboard?limit=" \o ToString(limit))

CallGetComplexity(r) ==
    Get_(r, [op |-> "getComplexity", tx |-> Undefined], "/")

CallGetNonce(r) == Get_(r, [op |-> "getNonce", tx |-> Undefined], "/")

(***************************************************************************)
(* The transport's events and the handlers they run.                       *)
(***************************************************************************)
\* a handler's outcome applied to the state: each invocation of request()'s
\* callback runs the operation's chain of callbacks
\* Apply with one completion guard for the whole client instead of one per
\* request
Apply_SharedOnce(r, out, nonce) ==
    LET results == [i \in DOMAIN out.calls |->
                       OpCallback(call[r], out.calls[i], nonce)]
        user == IF out.calls = << >> THEN << >> ELSE results[1].calls
        solved == IF out.calls = << >> THEN << >> ELSE results[1].solved
        thrown == IF out.calls = << >> THEN out.thrown
                  ELSE out.thrown \o results[1].thrown
    IN  /\ once' = [q \in DOMAIN once |-> out.once]
        /\ cbCalls' = [cbCalls EXCEPT ![r] = @ \o out.calls]
        /\ userCalls' = [userCalls EXCEPT ![r] = @ \o user]
        /\ solverCalls' = [solverCalls EXCEPT ![r] = @ \o solved]
        /\ uncaught' = [uncaught EXCEPT ![r] = @ \o thrown]

\* the request callback and the operation's own callback: lines 64-82, and
\* the callbacks of lines 110-214
Apply(r, out, nonce) ==
    LET results == [i \in DOMAIN out.calls |->
                       OpCallback(call[r], out.calls[i], nonce)]
        user == IF out.calls = << >> THEN << >> ELSE results[1].calls
        solved == IF out.calls = << >> THEN << >> ELSE results[1].solved
        thrown == IF out.calls = << >> THEN out.thrown
                  ELSE out.thrown \o results[1].thrown
    IN  /\ once' = [once EXCEPT ![r] = out.once]
        /\ cbCalls' = [cbCalls EXCEPT ![r] = @ \o out.calls]
        /\ userCalls' = [userCalls EXCEPT ![r] = @ \o user]
        /\ solverCalls' = [solverCalls EXCEPT ![r] = @ \o solved]
        /\ uncaught' = [uncaught EXCEPT ![r] = @ \o thrown]

\* the transport calls back with the response: lines 58-62
OnResponse(r) ==
    \E statusCode \in StatusCodes :
        /\ call[r].op # "none"
        /\ errArmed[r]
        /\ res[r].state = "none"
        /\ res' = [res EXCEPT ![r] = [state |-> "streaming",
                                      statusCode |-> statusCode,
                                      chunks |-> "", n |-> 0]]
        /\ UNCHANGED <<client, call, wire, errArmed, once, cbCalls,
                       userCalls, solverCalls, uncaught>>

\* OnData with a streaming decode: the body is decoded, and the request
\* completed, as soon as the text received so far is a JSON document
OnData_EagerDecode(r) ==
    \E chunk \in Chunks, nonce \in Nonces :
        /\ res[r].state = "streaming"
        /\ res[r].n < MaxChunks
        /\ res' = [res EXCEPT ![r].chunks = @ \o chunk, ![r].n = @ + 1]
        /\ IF JSONValid(res[r].chunks \o chunk)
           THEN Apply(r, EndHandler(once[r], res[r].chunks \o chunk,
                                    res[r].statusCode), nonce)
           ELSE UNCHANGED <<once, cbCalls, userCalls, solverCalls, uncaught>>
        /\ UNCHANGED <<client, call, wire, errArmed>>

\* res 'data': lines 60-62
OnData(r) ==
    \E chunk \in Chunks :
        /\ res[r].state = "streaming"
        /\ res[r].n < MaxChunks
        /\ res' = [res EXCEPT ![r].chunks = @ \o chunk, ![r].n = @ + 1]
        /\ UNCHANGED <<client, call, wire, errArmed, once, cbCalls,
                       userCalls, solverCalls, uncaught>>

\* res 'end': lines 63-78
OnEnd(r) ==
    \E nonce \in Nonces :
        /\ res[r].state = "streaming"
        /\ res' = [res EXCEPT ![r].state = "ended"]
        /\ Apply(r, EndHandler(once[r], res[r].chunks, res[r].statusCode),
                 nonce)
        /\ UNCHANGED <<client, call, wire, errArmed>>

\* OnError with one retry: the first transport error sends the request
\* again instead of completing it
OnError_Retry(r) ==
    \E err \in TransportErrors, nonce \in Nonces :
        /\ call[r].op # "none"
        /\ errArmed[r]
        /\ IF Len(wire[r]) < 2
           THEN /\ wire' = [wire EXCEPT ![r] = Append(@, @[1])]
                /\ UNCHANGED <<errArmed, once, cbCalls, userCalls,
                               solverCalls, uncaught>>
           ELSE /\ errArmed' = [errArmed EXCEPT ![r] = FALSE]
                /\ Apply(r, ErrorHandler(once[r], err), nonce)
                /\ UNCHANGED wire
        /\ UNCHANGED <<client, call, res>>

\* req 'error': line 81
OnError(r) ==
    \E err \in TransportErrors, nonce \in Nonces :
        /\ call[r].op # "none"
        /\ errArmed[r]
        /\ errArmed' = [errArmed EXCEPT ![r] = FALSE]
        /\ Apply(r, ErrorHandler(once[r], err), nonce)
        /\ UNCHANGED <<client, call, wire, res>>

Next ==
    \/ \E r \in DOMAIN call : CallGet(r)
    \/ \E r \in DOMAIN call : CallPost(r)
    \/ \E r \in DOMAIN call : CallGetBlock(r)
    \/ \E r \in DOMAIN call : CallGetTX(r)
    \/ \E r \in DOMAIN call : CallSpendTX(r)
    \/ \E r \in DOMAIN call : CallGetInfo(r)
    \/ \E r \in DOMAIN call : CallGetLeaderboard(r)
    \/ \E r \in DOMAIN call : CallGetComplexity(r)
    \/ \E r \in DOMAIN call : CallGetNonce(r)
    \/ \E r \in DOMAIN call : OnResponse(r)
    \/ \E r \in DOMAIN call : OnData(r)
    \/ \E r \in DOMAIN call : OnEnd(r)
    \/ \E r \in DOMAIN call : OnError(r)

Spec == Init /\ [][Next]_vars

(***************************************************************************)
(* Properties of Client.prototype.request.                                 *)
(***************************************************************************)
Started(r) == call[r].op # "none"
Ended(r) == res[r].state = "ended"
ErrorFired(r) == Started(r) /\ ~errArmed[r]
Decoded(r) == JSONParse(res[r].chunks)
StatusOK(r) == res[r].statusCode >= 200 /\ res[r].statusCode < 400

\* the response reached the completion guard before any transport error
ResponseFirst(r) ==
    cbCalls[r] # << >> => cbCalls[r][1].err.kind # "transport"

\* C1: request()'s callback is invoked at most once per request, under
\* every interleaving of 'error' and 'end' and for every body and status.
C1_CallbackAtMostOnce ==
    \A r \in DOMAIN call : Len(cbCalls[r]) <= 1

\* C2: once the transport has delivered 'error' or a complete response
\* ('end'), request()'s callback has been invoked, whatever the body text
\* and the status code.
C2_CallbackAtLeastOnce ==
    \A r \in DOMAIN call :
        (Ended(r) \/ ErrorFired(r)) => Len(cbCalls[r]) >= 1

\* C3 as stated: a decoded body that carries an 'error' field, whatever its
\* value and the status, is never delivered as a success, and the request
\* fails with an error whose message is the field's value.
C3_AnyErrorFieldFails ==
    \A r \in DOMAIN call :
        (/\ Ended(r)
         /\ JSONValid(res[r].chunks)
         /\ Decoded(r).t = "object"
         /\ "error" \in DOMAIN Decoded(r).v)
        => /\ \A i \in DOMAIN cbCalls[r] : cbCalls[r][i].err # NoErr
           /\ ResponseFirst(r) =>
                /\ cbCalls[r] # << >>
                /\ cbCalls[r][1].err.kind = "application"
                /\ cbCalls[r][1].err.message = JSString(Decoded(r).v["error"])

\* C3 amended: a decoded body whose 'error' field is truthy (not "", 0,
\* false or null) completes the request, for every status code, with
\* exactly one invocation that carries no data: an Error whose message is
\* the string form of the field, unless a transport error had already
\* completed the request.
C3_TruthyErrorFieldFails ==
    \A r \in DOMAIN call :
        (/\ Ended(r)
         /\ JSONValid(res[r].chunks)
         /\ Truthy(Get(Decoded(r), "error")))
        => /\ Len(cbCalls[r]) = 1
           /\ cbCalls[r][1].data = Undefined
           /\ \/ /\ cbCalls[r][1].err.kind = "application"
                 /\ cbCalls[r][1].err.message
                      = JSString(Get(Decoded(r), "error"))
              \/ /\ cbCalls[r][1].err.kind = "transport"
                 /\ ErrorFired(r)

\* an 'error' field of "rejected" under status 200 fails the request
C3_Witness ==
    \E r \in DOMAIN call :
        /\ Ended(r)
        /\ res[r].chunks = "{\"error\":\"rejected\"}"
        /\ res[r].statusCode = 200
        /\ cbCalls[r] = <<Invocation(MkError("application", "rejected"),
                                     Undefined)>>

\* C4: a body that decodes as JSON and carries no 'error' field is settled
\* by the status: below 200 or at least 400 the callback receives a
\* status-code error and no data, in [200, 400) no error and the decoded
\* body.
C4_StatusDecides ==
    \A r \in DOMAIN call :
        (/\ Ended(r)
         /\ JSONValid(res[r].chunks)
         /\ Get(Decoded(r), "error") = Undefined
         /\ ResponseFirst(r))
        => /\ cbCalls[r] # << >>
           /\ cbCalls[r][1] =
                IF StatusOK(r) THEN Invocation(NoErr, Decoded(r))
                ELSE Invocation(StatusErr(res[r].statusCode), Undefined)

\* C5: a body that is not valid JSON ends the request with the decode
\* error, whatever the status code: the one invocation of the callback
\* carries that error and no data (or the transport error that had already
\* completed the request), and neither the error-field check nor the
\* status check adds an outcome.
C5_DecodeFailureTerminal ==
    \A r \in DOMAIN call :
        (Ended(r) /\ ~JSONValid(res[r].chunks))
        => /\ Len(cbCalls[r]) = 1
           /\ cbCalls[r][1].data = Undefined
           /\ cbCalls[r][1].err.kind \in {"syntax", "transport"}
           /\ cbCalls[r][1].err.kind = "transport" => ErrorFired(r)
           /\ errArmed[r] => cbCalls[r][1].err = SyntaxErr
           /\ uncaught[r] = << >>

\* a truncated body under status 400 ends with the decode error alone
C5_Witness ==
    \E r \in DOMAIN call :
        /\ Ended(r)
        /\ res[r].chunks = "{\"error\":"
        /\ res[r].statusCode = 400
        /\ cbCalls[r] = <<Invocation(SyntaxErr, Undefined)>>

(***************************************************************************)
(* Properties of the public operations.                                    *)
(***************************************************************************)
\* C6: no retry.  Every call of an operation hands exactly one HTTP request
\* to the transport; a transport error that arrives before the response
\* has ended reaches request()'s callback and the caller's callback as the
\* error, with no data, and no further request is sent.
C6_NoRetry ==
    \A r \in DOMAIN call :
        /\ Len(wire[r]) = (IF Started(r) THEN 1 ELSE 0)
        /\ (ErrorFired(r) /\ ~Ended(r))
           => /\ Len(cbCalls[r]) = 1
              /\ cbCalls[r][1].err \in TransportErrors
              /\ cbCalls[r][1].data = Undefined
              /\ userCalls[r] = cbCalls[r]
              /\ solverCalls[r] = << >>

\* getNonce after a transport error: one request sent, the error delivered
C6_Witness ==
    \E r \in DOMAIN call :
        /\ call[r].op = "getNonce"
        /\ ErrorFired(r)
        /\ Len(wire[r]) = 1
        /\ wire[r][1].options.path = "/v1/"
        /\ userCalls[r] = <<Invocation(MkError("transport", "socket hang up"),
                                       Undefined)>>

\* C7: spendTX's callback fires once: with exactly the transaction passed
\* in when post's callback reports success, with the error and no
\* transaction when post's callback reports failure.
C7_SpendTXOnce ==
    \A r \in DOMAIN call :
        (call[r].op = "spendTX" /\ cbCalls[r] # << >>)
        => /\ Len(userCalls[r]) = 1
           /\ userCalls[r][1] =
                IF cbCalls[r][1].err = NoErr
                THEN Invocation(NoErr, call[r].tx)
                ELSE Invocation(cbCalls[r][1].err, Undefined)

\* C8: getNonce composes getComplexity then solve.  The solver is invoked
\* at most once, only after the GET has succeeded, with the complexity
\* getComplexity derives from the response; the token delivered is the
\* string form of that complexity, ":" and the hex of the solver's result.
\* When getComplexity fails the solver is not invoked and the caller
\* receives the error and no token.
C8_NonceComposition ==
    \A r \in DOMAIN call :
        call[r].op = "getNonce"
        => /\ Len(solverCalls[r]) <= 1
           /\ solverCalls[r] # << >>
              => /\ Ended(r)
                 /\ cbCalls[r] = <<Invocation(NoErr, Decoded(r))>>
                 /\ solverCalls[r][1].complexity = Complexity(Decoded(r))
                 /\ solverCalls[r][1].nonce \in Nonces
                 /\ userCalls[r] =
                      <<Invocation(NoErr,
                          JStr(JSString(solverCalls[r][1].complexity)
                               \o ":" \o ToHex(solverCalls[r][1].nonce)))>>
           /\ (cbCalls[r] # << >> /\ cbCalls[r][1].err = NoErr)
              => Len(solverCalls[r]) = 1
           /\ (\E i \in DOMAIN cbCalls[r] : cbCalls[r][i].err # NoErr)
              => /\ solverCalls[r] = << >>
                 /\ userCalls[r] = cbCalls[r]
                 /\ \A i \in DOMAIN userCalls[r] :
                        userCalls[r][i].data = Undefined

\* complexity 4 and a solver result of 00ff give the token "4:00ff"
C8_Witness ==
    \E r \in DOMAIN call :
        /\ call[r].op = "getNonce"
        /\ res[r].chunks = "{\"proof-of-work-complexity\":4}"
        /\ solverCalls[r] = <<[complexity |-> JNum(4), nonce |-> <<0, 255>>]>>
        /\ userCalls[r] = <<Invocation(NoErr, JStr("4:00ff"))>>

\* C9: getComplexity delivers the number the service reports in
\* proof-of-work-complexity, 0 when the response has no such field, and
\* the error with no value when getInfo fails.
C9_ComplexityOrDefault ==
    \A r \in DOMAIN call :
        call[r].op = "getComplexity"
        => /\ Len(userCalls[r]) = Len(cbCalls[r])
           /\ \A i \in DOMAIN cbCalls[r] :
                LET c == cbCalls[r][i]
                    f == Get(c.data, "proof-of-work-complexity")
                IN  userCalls[r][i] =
                      IF c.err # NoErr THEN Invocation(c.err, Undefined)
                      ELSE IF f.t = "number" THEN Invocation(NoErr, f)
                      ELSE Invocation(NoErr, JNum(0))

\* the service reports complexity 4 and getComplexity delivers 4
C9_Witness ==
    \E r \in DOMAIN call :
        /\ call[r].op = "getComplexity"
        /\ res[r].chunks = "{\"proof-of-work-complexity\":4}"
        /\ userCalls[r] = <<Invocation(NoErr, JNum(4))>>

\* C10: after a successful GET, getBlock and getTX invoke the caller's
\* callback exactly once, with the decoded entity or with an error: an
\* entity field that is missing or does not decode is delivered as an
\* error.  After a failed GET the error is delivered and nothing is
\* decoded.
C10_EntityOrError ==
    \A r \in DOMAIN call :
        (call[r].op \in {"getBlock", "getTX"} /\ cbCalls[r] # << >>)
        => IF cbCalls[r][1].err = NoErr
           THEN /\ Len(userCalls[r]) = 1
                /\ \/ /\ userCalls[r][1].err = NoErr
                      /\ userCalls[r][1].data.t = "entity"
                   \/ /\ userCalls[r][1].err # NoErr
                      /\ userCalls[r][1].data = Undefined
           ELSE /\ userCalls[r] # << >>
                /\ userCalls[r][1] = Invocation(cbCalls[r][1].err, Undefined)

(***************************************************************************)
(* Client.prototype.parseTX: a transaction built from structured input.    *)
(***************************************************************************)
JArr(items) == [t |-> "array", v |-> items]

\* typeof x
TypeOf(d) ==
    CASE d.t \in {"null", "array", "object", "entity"} -> "object"
      [] OTHER -> d.t

\* TX.version of hackchain-core
TXVersion == 1

\* LooseEq with a missing (undefined) actual let through
LooseEq_UndefinedPasses(d, n) ==
    CASE d.t = "undefined" -> TRUE
      [] d.t = "number" -> d.v = n
      [] d.t = "string" -> d.v = ToString(n)
      [] d.t = "boolean" -> (IF d.v THEN 1 ELSE 0) = n
      [] OTHER -> FALSE

\* actual == expected, as assert.equal compares, for a number expected and
\* an actual that is undefined, null, a boolean, a number, a decimal string
\* or a plain object
LooseEq(d, n) ==
    CASE d.t = "number" -> d.v = n
      [] d.t = "string" -> d.v = ToString(n)
      [] d.t = "boolean" -> (IF d.v THEN 1 ELSE 0) = n
      [] OTHER -> FALSE

\* an AssertionError; the backquotes of the source's messages are written '
AssertionErr(message) == MkError("assertion", message)
CompileErr == MkError("compile", "unknown token")

\* TX.Script.compileTextArray of hackchain-core: the known tokens and
\* their opcodes; any other token makes it throw
KnownTokens == {"irq success", "irq yield"}
Opcode(token) == IF token = "irq success" THEN 1 ELSE 2
CompileOK(script) ==
    \A i \in DOMAIN script.v :
        script.v[i].t = "string" /\ script.v[i].v \in KnownTokens
Compile(script) == [i \in DOMAIN script.v |-> Opcode(script.v[i].v)]

\* new BN(value, 10) of bn.js for a string: a leading "-" negates, the
\* empty string is 0
BN(value) ==
    CASE value = "10" -> 10
      [] value = "-5" -> -5
      [] OTHER -> 0

\* the result of a loop over records: the items built, or the first error
Built(err, items) == [err |-> err, items |-> items]

\* one turn of the loop over data.inputs: lines 153-167
BuildInput(input) ==
    IF ~(Truthy(input) /\ TypeOf(input) = "object")
    THEN Built(AssertionErr("Client: 'tx.inputs[]' must contain Objects"),
               << >>)
    ELSE IF TypeOf(Get(input, "hash")) # "string"
    THEN Built(AssertionErr(
                 "Client: 'tx.inputs[].hash' must be a hex string"), << >>)
    ELSE IF TypeOf(Get(input, "index")) # "number"
    THEN Built(AssertionErr(
                 "Client: 'tx.inputs[].number' must be a number"), << >>)
    ELSE IF Get(input, "script").t # "array"
    THEN Built(AssertionErr(
                 "Client: 'tx.inputs[].script' must be an Array"), << >>)
    ELSE IF ~CompileOK(Get(input, "script")) THEN Built(CompileErr, << >>)
    ELSE Built(NoErr, <<[hash |-> FromHex(Get(input, "hash").v),
                         index |-> Get(input, "index").v,
                         script |-> Compile(Get(input, "script"))]>>)

\* one turn of the loop over data.outputs: lines 171-182
BuildOutput(output) ==
    IF ~(Truthy(output) /\ TypeOf(output) = "object")
    THEN Built(AssertionErr("Client: 'tx.outputs[]' must contain Objects"),
               << >>)
    ELSE IF TypeOf(Get(output, "value")) # "string"
    THEN Built(AssertionErr(
                 "Client: 'tx.output[].value' must be a decimal string"),
               << >>)
    ELSE IF Get(output, "script").t # "array"
    THEN Built(AssertionErr(
                 "Client: 'tx.outputs[].script' must be an Array"), << >>)
    ELSE IF ~CompileOK(Get(output, "script")) THEN Built(CompileErr, << >>)
    ELSE Built(NoErr, <<[value |-> BN(Get(output, "value").v),
                         script |-> Compile(Get(output, "script"))]>>)

\* BuildInputs with a record that fails skipped instead of ending the loop
RECURSIVE BuildInputs_SkipInvalid(_, _, _)
BuildInputs_SkipInvalid(recs, i, acc) ==
    IF i > Len(recs) THEN Built(NoErr, acc)
    ELSE LET b == BuildInput(recs[i]) IN
         IF b.err # NoErr THEN BuildInputs_SkipInvalid(recs, i + 1, acc)
         ELSE BuildInputs_SkipInvalid(recs, i + 1, acc \o b.items)

\* the loop over data.inputs from record i on: lines 152-168
RECURSIVE BuildInputs(_, _, _)
BuildInputs(recs, i, acc) ==
    IF i > Len(recs) THEN Built(NoErr, acc)
    ELSE LET b == BuildInput(recs[i]) IN
         IF b.err # NoErr THEN Built(b.err, acc)
         ELSE BuildInputs(recs, i + 1, acc \o b.items)

\* the loop over data.outputs from record i on: lines 170-183
RECURSIVE BuildOutputs(_, _, _)
BuildOutputs(recs, i, acc) ==
    IF i > Len(recs) THEN Built(NoErr, acc)
    ELSE LET b == BuildOutput(recs[i]) IN
         IF b.err # NoErr THEN Built(b.err, acc)
         ELSE BuildOutputs(recs, i + 1, acc \o b.items)

MkTX(inputs, outputs) ==
    [t |-> "tx",
     v |-> [version |-> TXVersion, inputs |-> inputs, outputs |-> outputs]]

\* parseTX(data, callback): lines 144-186.  A failed assert and a compile
\* error are thrown to the caller
parseTX(data) ==
    IF ~LooseEq(Get(data, "version"), TXVersion)
    THEN Result(<< >>, << >>,
                <<AssertionErr("Client: version must be "
                               \o ToString(TXVersion))>>)
    ELSE IF Get(data, "inputs").t # "array"
    THEN Result(<< >>, << >>,
                <<AssertionErr("Client: 'tx.inputs' must be an Array")>>)
    ELSE IF Get(data, "outputs").t # "array"
    THEN Result(<< >>, << >>,
                <<AssertionErr("Client: 'tx.inputs' must be an Array")>>)
    ELSE LET ins == BuildInputs(Get(data, "inputs").v, 1, << >>) IN
         IF ins.err # NoErr THEN Result(<< >>, << >>, <<ins.err>>)
         ELSE LET outs == BuildOutputs(Get(data, "outputs").v, 1, << >>) IN
              IF outs.err # NoErr THEN Result(<< >>, << >>, <<outs.err>>)
              ELSE Result(<<Invocation(NoErr, MkTX(ins.items, outs.items))>>,
                          << >>, << >>)

\* the structured inputs given to parseTX
Script1 == JArr(<<JStr("irq success")>>)
Script2 == JArr(<<JStr("irq yield"), JStr("irq success")>>)
Versions == {JNum(1), JNum(2), JStr("1"), Undefined}
InputRecs ==
    { JObj([hash |-> JStr("01ab"), index |-> JNum(0), script |-> Script1]),
      JObj([hash |-> JStr("ff"), index |-> JNum(-1), script |-> Script2]),
      JObj([hash |-> JStr("01ab"), index |-> JStr("0"), script |-> Script1]),
      JObj([index |-> JNum(0), script |-> Script1]),
      JObj([hash |-> JStr("01ab"), index |-> JNum(0),
            script |-> JArr(<<JStr("bogus")>>)]),
      JNull }
OutputRecs ==
    { JObj([value |-> JStr("10"), script |-> Script1]),
      JObj([value |-> JStr("-5"), script |-> Script2]),
      JObj([value |-> JStr(""), script |-> Script1]),
      JObj([value |-> JNum(10), script |-> Script1]) }

SeqsUpTo(S, n) == UNION {[1..k -> S] : k \in 0..n}
InputsFields ==
    {JArr(q) : q \in SeqsUpTo(InputRecs, MaxRecords)} \cup {JStr("none")}
OutputsFields ==
    {JArr(q) : q \in SeqsUpTo(OutputRecs, MaxRecords)} \cup {JStr("none")}

\* the object { version, inputs, outputs }; version is left out when it is
\* undefined
RawTX(version, inputs, outputs) ==
    JObj(IF version = Undefined
         THEN [inputs |-> inputs, outputs |-> outputs]
         ELSE [version |-> version, inputs |-> inputs, outputs |-> outputs])

\* client.parseTX(data, callback)
CallParseTX(r) ==
    \E version \in Versions, inputs \in InputsFields,
       outputs \in OutputsFields :
        LET data == RawTX(version, inputs, outputs)
            out == parseTX(data)
        IN  /\ call[r].op = "none"
            /\ call' = [call EXCEPT ![r] = [op |-> "parseTX", tx |-> data]]
            /\ userCalls' = [userCalls EXCEPT ![r] = @ \o out.calls]
            /\ uncaught' = [uncaught EXCEPT ![r] = @ \o out.thrown]
            /\ UNCHANGED <<client, wire, errArmed, res, once, cbCalls,
                           solverCalls>>

NextTX == \E r \in DOMAIN call : CallParseTX(r)

SpecTX == Init /\ [][NextTX]_vars

(***************************************************************************)
(* Properties of parseTX.                                                  *)
(***************************************************************************)
Parsed(r) == call[r].op = "parseTX"
Raw(r) == call[r].tx
Delivered(r) == userCalls[r] # << >>

\* the field a message names between quotes; the version message names
\* the version
NamedField(message) ==
    CASE message = "Client: 'tx.inputs' must be an Array" -> "tx.inputs"
      [] message = "Client: 'tx.inputs[]' must contain Objects"
           -> "tx.inputs[]"
      [] message = "Client: 'tx.inputs[].hash' must be a hex string"
           -> "tx.inputs[].hash"
      [] message = "Client: 'tx.inputs[].number' must be a number"
           -> "tx.inputs[].number"
      [] message = "Client: 'tx.inputs[].script' must be an Array"
           -> "tx.inputs[].script"
      [] message = "Client: 'tx.outputs[]' must contain Objects"
           -> "tx.outputs[]"
      [] message = "Client: 'tx.output[].value' must be a decimal string"
           -> "tx.output[].value"
      [] message = "Client: 'tx.outputs[].script' must be an Array"
           -> "tx.outputs[].script"
      [] OTHER -> "version"

\* the strings over the values of OutputRecs that are non-negative base-10
\* integers
DecimalStrings == {"10"}

\* C11: structured input whose version field is anything other than
\* exactly TX.version is rejected with a validation error and no
\* transaction is delivered.
C11_VersionGuard ==
    \A r \in DOMAIN call :
        (Parsed(r) /\ Get(Raw(r), "version") # JNum(TXVersion))
        => /\ ~Delivered(r)
           /\ uncaught[r] # << >>
           /\ uncaught[r][1].kind = "assertion"

\* C12 as stated: structured input that has no version field and is
\* otherwise valid is not rejected and yields a transaction.
C12_MissingVersionAccepted ==
    \A r \in DOMAIN call :
        (/\ Parsed(r)
         /\ "version" \notin DOMAIN Raw(r).v
         /\ Get(Raw(r), "inputs").t = "array"
         /\ Get(Raw(r), "outputs").t = "array"
         /\ \A i \in DOMAIN Raw(r).v.inputs.v :
                BuildInput(Raw(r).v.inputs.v[i]).err = NoErr
         /\ \A i \in DOMAIN Raw(r).v.outputs.v :
                BuildOutput(Raw(r).v.outputs.v[i]).err = NoErr)
        => Delivered(r)

\* C12 amended: the version rule of parseTX applies whether or not the raw
\* input has a version field: input with no version field is rejected with
\* the version error, and yields no transaction.
C12_MissingVersionRejected ==
    \A r \in DOMAIN call :
        (Parsed(r) /\ "version" \notin DOMAIN Raw(r).v)
        => /\ ~Delivered(r)
           /\ uncaught[r] = <<AssertionErr("Client: version must be 1")>>

\* input without a version field, one valid input and one valid output
C12_Witness ==
    \E r \in DOMAIN call :
        /\ Parsed(r)
        /\ "version" \notin DOMAIN Raw(r).v
        /\ Get(Raw(r), "inputs").t = "array"
        /\ Get(Raw(r), "outputs").t = "array"
        /\ Len(Raw(r).v.inputs.v) = 1
        /\ Len(Raw(r).v.outputs.v) = 1
        /\ BuildInput(Raw(r).v.inputs.v[1]).err = NoErr
        /\ BuildOutput(Raw(r).v.outputs.v[1]).err = NoErr
        /\ ~Delivered(r)
        /\ uncaught[r] # << >>

\* C13: the validation error names the field that failed: outputs that is
\* not a sequence is reported as outputs, an input whose index is not a
\* number is reported as index.
C13_ErrorNamesField ==
    \A r \in DOMAIN call :
        (/\ Parsed(r)
         /\ LooseEq(Get(Raw(r), "version"), TXVersion)
         /\ Get(Raw(r), "inputs").t = "array")
        => /\ Get(Raw(r), "outputs").t # "array"
              => /\ uncaught[r] # << >>
                 /\ NamedField(uncaught[r][1].message) = "tx.outputs"
           /\ (/\ Get(Raw(r), "outputs").t = "array"
               /\ Raw(r).v.inputs.v # << >>
               /\ TypeOf(Raw(r).v.inputs.v[1]) = "object"
               /\ Truthy(Raw(r).v.inputs.v[1])
               /\ TypeOf(Get(Raw(r).v.inputs.v[1], "hash")) = "string"
               /\ TypeOf(Get(Raw(r).v.inputs.v[1], "index")) # "number")
              => /\ uncaught[r] # << >>
                 /\ NamedField(uncaught[r][1].message) = "tx.inputs[].index"

\* C14: no transaction is delivered for input that has an input record
\* whose index is not a non-negative integer.
C14_IndexNonNegative ==
    \A r \in DOMAIN call :
        (Parsed(r) /\ Delivered(r))
        => \A i \in DOMAIN Raw(r).v.inputs.v :
               LET index == Get(Raw(r).v.inputs.v[i], "index") IN
               index.t = "number" /\ index.v >= 0

\* C15: no transaction is delivered for input that has an output record
\* whose value is not a string holding a non-negative base-10 integer.
C15_ValueDecimal ==
    \A r \in DOMAIN call :
        (Parsed(r) /\ Delivered(r))
        => \A i \in DOMAIN Raw(r).v.outputs.v :
               LET value == Get(Raw(r).v.outputs.v[i], "value") IN
               value.t = "string" /\ value.v \in DecimalStrings

DefaultHeaders ==
    ("User-Agent" :> "hackchain/client_v1.0.0")
    @@ ("Content-Type" :> "application/json")

\* the headers argument an operation gives to request()
CallerHeaders(c) ==
    CASE c.op = "post" -> PostHeaders
      [] c.op = "spendTX" -> {("X-Proof-Of-Work" :> n) : n \in ProofNonces}
      [] OTHER -> {NoHeaders}

\* the resource path an operation gives to request()
ResourcePaths(c) ==
    CASE c.op \in {"get", "post"} -> Paths
      [] c.op = "getBlock" -> {"/block/" \o h : h \in Hashes}
      [] c.op = "getTX" -> {"/tx/" \o h : h \in Hashes}
      [] c.op = "spendTX" -> {"/tx/" \o ToHex(TXHash(c.tx))}
      [] c.op = "getLeaderboard" -> {"/leaderboard?limit=10"}
      [] OTHER -> {"/"}

\* C16 as stated: whatever headers the caller supplies, every request
\* carries User-Agent: hackchain/client_v<version> and Content-Type:
\* application/json, and its path is /v1 followed by the resource path.
C16_DefaultHeadersAlways ==
    \A r \in DOMAIN call : \A i \in DOMAIN wire[r] :
        LET o == wire[r][i].options IN
        /\ "User-Agent" \in DOMAIN o.headers
        /\ o.headers["User-Agent"] = "hackchain/client_v1.0.0"
        /\ "Content-Type" \in DOMAIN o.headers
        /\ o.headers["Content-Type"] = "application/json"
        /\ \E p \in ResourcePaths(call[r]) : o.path = "/v1" \o p

\* C16 amended: every request carries a User-Agent and a Content-Type
\* header: the caller's own value when the headers argument names the
\* header, otherwise hackchain/client_v<version> and application/json; the
\* operations of the client, which name neither, always send the two
\* defaults.  The path is always /v1 followed by the resource path.
C16_DefaultHeadersUnlessOverridden ==
    \A r \in DOMAIN call : \A i \in DOMAIN wire[r] :
        LET o == wire[r][i].options IN
        /\ \E h \in CallerHeaders(call[r]) :
               o.headers = [k \in DOMAIN h \cup DOMAIN DefaultHeaders |->
                              IF k \in DOMAIN h THEN h[k]
                              ELSE DefaultHeaders[k]]
        /\ call[r].op # "post"
           => /\ o.headers["User-Agent"] = "hackchain/client_v1.0.0"
              /\ o.headers["Content-Type"] = "application/json"
        /\ \E p \in ResourcePaths(call[r]) : o.path = "/v1" \o p

\* spendTX sends the proof-of-work header next to the two defaults
C16_Witness ==
    \E r \in DOMAIN call :
        /\ call[r].op = "spendTX"
        /\ wire[r] # << >>
        /\ wire[r][1].options.path = "/v1/tx/cafe"
        /\ wire[r][1].options.headers =
             ("User-Agent" :> "hackchain/client_v1.0.0")
             @@ ("Content-Type" :> "application/json")
             @@ ("X-Proof-Of-Work" :> "4:0a")

(***************************************************************************)
(* The response body.                                                      *)
(***************************************************************************)
\* what a request has reported so far
Reported(r) == <<once[r], cbCalls[r], userCalls[r], solverCalls[r], uncaught[r]>>

\* a step in which request r receives a 'data' event
DataStep(r) ==
    /\ res[r].state = "streaming"
    /\ res'[r].state = "streaming"
    /\ res'[r] # res[r]

\* a step in which request r receives the 'end' event
EndStep(r) == res[r].state = "streaming" /\ res'[r].state = "ended"

\* C18: the body is accumulated in full before it is parsed.  A 'data'
\* event appends its chunk to the text received so far and reports
\* nothing; a result of decoding (a syntax error, an application error, a
\* status error, a success) is reported only in the step of the 'end'
\* event, which leaves the text as accumulated, and a success carries the
\* value of the whole text.
C18_AccumulateThenParse ==
    [][\A r \in DOMAIN call :
          /\ DataStep(r)
             => /\ \E chunk \in Chunks :
                       res'[r].chunks = res[r].chunks \o chunk
                /\ Reported(r)' = Reported(r)
          /\ EndStep(r) => res'[r].chunks = res[r].chunks
          /\ (/\ Len(cbCalls'[r]) > Len(cbCalls[r])
              /\ cbCalls'[r][Len(cbCalls'[r])].err.kind # "transport")
             => /\ EndStep(r)
                /\ cbCalls'[r][Len(cbCalls'[r])].err = NoErr
                   => /\ JSONValid(res[r].chunks)
                      /\ cbCalls'[r][Len(cbCalls'[r])].data
                           = JSONParse(res[r].chunks)
                /\ cbCalls'[r][Len(cbCalls'[r])].err.kind = "syntax"
                   => ~JSONValid(res[r].chunks)
          /\ uncaught'[r] # uncaught[r] => EndStep(r)
      ]_vars

\* a body that arrived in two chunks, decoded as one document at 'end'
C18_Witness ==
    \E r \in DOMAIN call :
        /\ Ended(r)
        /\ res[r].n = 2
        /\ res[r].chunks = "{\"error\":\"rejected\"}"
        /\ res[r].statusCode = 400
        /\ errArmed[r]
        /\ cbCalls[r] = <<Invocation(MkError("application", "rejected"),
                                     Undefined)>>

(***************************************************************************)
(* The constructor.                                                        *)
(***************************************************************************)
URIs == {"http://ledger:8080", "http://ledger", "https://ledger"}

InitURI == \E uri \in URIs : InitOf(uri, Requests)

SpecURI == InitURI /\ [][Next]_vars

\* C20: a Client takes its transport and its default port from the
\* scheme of its URI: http: gives the HTTP transport and port 80, https:
\* gives HTTPS and port 443, and a port given in the URI is the one used.
C20_SchemeSelectsTransport ==
    \A uri \in URIs :
        client = Client(uri)
        => LET parsed == UrlParse(uri) IN
           /\ client.module =
                (IF parsed.protocol = "http:" THEN "http" ELSE "https")
           /\ client.port =
                (IF parsed.port # "" THEN parsed.port
                 ELSE IF parsed.protocol = "http:" THEN "80" ELSE "443")

(***************************************************************************)
(* Two requests in flight on one Client.                                   *)
(***************************************************************************)
ConcRequests == {"r1", "r2"}
ConcStatusCodes == {200, 400}
ConcChunks == {"{}", "{\"tx\":\"01ab\"}"}

InitConc == InitOf(DefaultURI, ConcRequests)

\* the events of either request, in any interleaving
NextConc ==
    \/ \E r \in DOMAIN call : CallGet(r)
    \/ \E r \in DOMAIN call : CallGetTX(r)
    \/ \E r \in DOMAIN call :
           OnResponse(r) /\ res'[r].statusCode \in ConcStatusCodes
    \/ \E r \in DOMAIN call :
           /\ OnData(r)
           /\ \E chunk \in ConcChunks :
                  res'[r].chunks = res[r].chunks \o chunk
    \/ \E r \in DOMAIN call : OnEnd(r)
    \/ \E r \in DOMAIN call : OnError(r)

SpecConc == InitConc /\ [][NextConc]_vars

\* everything the program holds for one request
PerRequest(r) ==
    <<call[r], wire[r], errArmed[r], res[r], once[r], cbCalls[r],
      userCalls[r], solverCalls[r], uncaught[r]>>

\* the outcome of request r is the outcome of its own response
OwnOutcome(r) ==
    /\ \A i \in DOMAIN cbCalls[r] :
           LET inv == cbCalls[r][i] IN
           /\ inv.err = NoErr
              => /\ Ended(r)
                 /\ StatusOK(r)
                 /\ JSONValid(res[r].chunks)
                 /\ inv.data = Decoded(r)
           /\ inv.err.kind = "status"
              => Ended(r) /\ inv.err = StatusErr(res[r].statusCode)
           /\ inv.err.kind = "syntax"
              => Ended(r) /\ ~JSONValid(res[r].chunks)
           /\ inv.err.kind = "transport" => ErrorFired(r)
    /\ (Ended(r) /\ errArmed[r] /\ JSONValid(res[r].chunks))
       => Len(cbCalls[r]) = 1
    /\ (ErrorFired(r) /\ res[r].state = "none") => Len(cbCalls[r]) = 1

\* C17: two requests issued on the same Client before either completes
\* are independent.  Each one's callback reports the outcome of its own
\* response (its own body, its own status, its own transport error)
\* exactly once when its response is complete and well-formed or when its
\* transport fails first, whatever happens to the other; every step
\* changes the state of one request only, and only by an event of that
\* request; and the Client's configuration never changes.
C17_RequestsIndependent ==
    /\ [](\A r \in DOMAIN call : OwnOutcome(r))
    /\ [][/\ client' = client
          /\ \A q, r \in DOMAIN call :
                 (PerRequest(q)' # PerRequest(q)
                  /\ PerRequest(r)' # PerRequest(r)) => q = r
          /\ \A r \in DOMAIN call :
                 Reported(r)' # Reported(r)
                 => (res'[r] # res[r] \/ errArmed'[r] # errArmed[r])
      ]_vars

\* both requests in flight together, then one succeeds with its own body
\* and the other fails with its own status
C17_Witness ==
    /\ DOMAIN call = ConcRequests
    /\ Len(wire["r1"]) = 1 /\ Len(wire["r2"]) = 1
    /\ wire["r1"][1].options.path # wire["r2"][1].options.path
    /\ cbCalls["r1"] = <<Invocation(NoErr, JObj(NoProps))>>
    /\ res["r2"].chunks = "{\"tx\":\"01ab\"}"
    /\ cbCalls["r2"] = <<Invocation(StatusErr(400), Undefined)>>

====
